---- MODULE Spec2Model ----
(***************************************************************************)
(* Coinbase mappers of tardis-node (src/mappers/coinbase.ts): the trades   *)
(* mapper, the book-change mapper with its per-symbol last-valid-timestamp *)
(* map, and the book-ticker mapper.                                        *)
(*                                                                         *)
(* Representation of JavaScript values:                                    *)
(*   - an object is a TLA+ function from property names to values; an      *)
(*     optional property that is undefined is absent from its DOMAIN;      *)
(*   - a number is [nan |-> BOOLEAN, val |-> Int], so that NaN is a value  *)
(*     and every comparison with NaN is false;                             *)
(*   - a numeric string is a tuple of one-character strings (decimal       *)
(*     fractions are not represented: the numerals are integers);          *)
(*   - a time string is [kind |-> "iso", sec, frac] (whole seconds since   *)
(*     the epoch and the digits of the fractional second, 3 or 6 of        *)
(*     them), or [kind |-> "text"], a string that is no date;              *)
(*   - a Date is [ref, ms] plus the property us once it was assigned; ref  *)
(*     tells the caller's localTimestamp object from an object allocated   *)
(*     by new Date.                                                        *)
(***************************************************************************)
EXTENDS Integers, Sequences, FiniteSets, TLC

VARIABLES
    symbolLastTimestampMap, \* CoinbaseBookChangMapper._symbolLastTimestampMap
    mapper,                 \* the mapper whose map ran last ("none" at first)
    message,                \* the message of the last map call
    localTimestamp,         \* the localTimestamp of the last map call
    out,                    \* the events the last map call yielded, in order
    mapBefore,              \* _symbolLastTimestampMap when the last call began
    messageAfter,           \* the message object as the last call left it
    validSeen,              \* product_ids that had an l2update with time >= 0
    \* history of the l2update stream of each symbol
    lastValid,              \* timestamp of its latest l2update with time >= 0
    inputMonotone,          \* its times >= 0 never decreased so far
    lastEmitted,            \* timestamp of its latest emitted BookChange
    outputMonotone,         \* its emitted timestamps never decreased so far
    \* two streams, each mapped by the shared mapper and by a mapper of its own
    stream,                 \* the stream of the last message ("none" at first)
    ownMaps,                \* _symbolLastTimestampMap of each stream's mapper
    outOwn,                 \* the events the stream's own mapper yielded
    streamLast,             \* per stream: the time each symbol stored last
    \* map calls whose sequences are advanced later
    generators,             \* the sequences map returned, in call order
    advanced,               \* the calls in the order of their first advance
    emitted,                \* the events yielded so far, in order
    \* the dispatcher
    probed,                 \* the message canHandle was asked about last
    handles                 \* the mappers whose canHandle returned true

callVars == <<mapper, message, localTimestamp, out, mapBefore, messageAfter,
              validSeen>>

mapperVars == <<symbolLastTimestampMap, callVars>>

historyVars == <<lastValid, inputMonotone, lastEmitted, outputMonotone>>

streamVars == <<stream, ownMaps, outOwn, streamLast>>

lazyVars == <<generators, advanced, emitted>>

dispatchVars == <<probed, handles>>

vars == <<mapperVars, historyVars, streamVars, lazyVars, dispatchVars>>

---------------------------------------------------------------------------
(* JavaScript numbers *)

Num(n) == [nan |-> FALSE, val |-> n]

NaN == [nan |-> TRUE, val |-> 0]

\* a < b of JavaScript: false as soon as one side is NaN
LessThan(a, b) == ~a.nan /\ ~b.nan /\ a.val < b.val

NumberIsNaN(a) == a.nan

Digits == {"0", "1", "2", "3", "4", "5", "6", "7", "8", "9"}

DigitValue(c) ==
    CASE c = "0" -> 0 [] c = "1" -> 1 [] c = "2" -> 2 [] c = "3" -> 3
      [] c = "4" -> 4 [] c = "5" -> 5 [] c = "6" -> 6 [] c = "7" -> 7
      [] c = "8" -> 8 [] c = "9" -> 9

RECURSIVE DigitsValue(_)
DigitsValue(s) ==
    IF s = << >> THEN 0
    ELSE 10 * DigitsValue(SubSeq(s, 1, Len(s) - 1)) + DigitValue(s[Len(s)])

AllDigits(s) == \A i \in 1..Len(s) : s[i] \in Digits

\* Number(str): "" is 0, an optionally signed numeral is its value, the rest NaN
Number(str) ==
    IF str = << >> THEN Num(0)
    ELSE IF str[1] = "-"
         THEN IF Len(str) > 1 /\ AllDigits(Tail(str))
              THEN Num(0 - DigitsValue(Tail(str)))
              ELSE NaN
         ELSE IF AllDigits(str) THEN Num(DigitsValue(str)) ELSE NaN

---------------------------------------------------------------------------
(* Dates *)

IsoTime(sec, frac) == [kind |-> "iso", sec |-> sec, frac |-> frac]

NotATime == [kind |-> "text"]

\* new Date(str): milliseconds since the epoch, the fraction cut to 3 digits;
\* Invalid Date (valueOf NaN) for a string that is no date
NewDate(str) ==
    [ref |-> "new",
     ms  |-> IF str.kind = "iso"
             THEN Num(str.sec * 1000 + DigitsValue(SubSeq(str.frac, 1, 3)))
             ELSE NaN]

valueOf(date) == date.ms

\* parseμs of ../handy: digits 4 to 6 of a six-digit fraction, 0 otherwise
parseUs(str) ==
    IF str.kind = "iso" /\ Len(str.frac) = 6
    THEN DigitsValue(SubSeq(str.frac, 4, 6))
    ELSE 0

\* date.μs = us
SetUs(date, us) == [ref |-> date.ref, ms |-> date.ms, us |-> us]

---------------------------------------------------------------------------
(* Map<string, Date> *)

MapHas(map, key) == key \in DOMAIN map

\* as MapSet, dropping the entries of the other keys
MapSet_ForgetsOthers(map, key, value) == [k \in {key} |-> value]

MapSet(map, key, value) ==
    [k \in DOMAIN map \cup {key} |-> IF k = key THEN value ELSE map[k]]

---------------------------------------------------------------------------
(* Book levels *)

mapUpdateBookLevel(level) ==
    [price |-> Number(level[2]), amount |-> Number(level[3])]

mapSnapshotBookLevel(level) ==
    [price |-> Number(level[1]), amount |-> Number(level[2])]

\* as validAmountsOnly, rejecting an amount of zero too
validAmountsOnly_RejectsZero(level) ==
    IF NumberIsNaN(level.amount) THEN FALSE
    ELSE IF LessThan(level.amount, Num(1)) THEN FALSE
    ELSE TRUE

validAmountsOnly(level) ==
    IF NumberIsNaN(level.amount) THEN FALSE
    ELSE IF LessThan(level.amount, Num(0)) THEN FALSE
    ELSE TRUE

\* as IsBuy, with the side inverted as the trades mapper inverts it
IsBuy_Inverted(c) == c[1] = "sell"

\* (c) => c[0] === 'buy'
IsBuy(c) == c[1] = "buy"

\* (c) => c[0] === 'sell'
IsSell(c) == c[1] = "sell"

\* levels.map(mapSnapshotBookLevel).filter(validAmountsOnly)
SnapshotLevels(levels) ==
    SelectSeq([i \in 1..Len(levels) |-> mapSnapshotBookLevel(levels[i])],
              validAmountsOnly)

\* changes.filter((c) => c[0] === 'buy').map(mapUpdateBookLevel)
UpdateBids(changes) ==
    LET buys == SelectSeq(changes, IsBuy)
    IN  [i \in 1..Len(buys) |-> mapUpdateBookLevel(buys[i])]

\* changes.filter((c) => c[0] === 'sell').map(mapUpdateBookLevel)
UpdateAsks(changes) ==
    LET sells == SelectSeq(changes, IsSell)
    IN  [i \in 1..Len(sells) |-> mapUpdateBookLevel(sells[i])]

---------------------------------------------------------------------------
(* CoinbaseBookChangMapper.map *)

\* as SnapshotTimestamp, without the check for a negative time
SnapshotTimestamp_NoNegativeCheck(msg, lt) ==
    IF "time" \in DOMAIN msg
    THEN SetUs(NewDate(msg.time), parseUs(msg.time))
    ELSE lt

\* the timestamp of the snapshot branch
SnapshotTimestamp(msg, lt) ==
    IF "time" \in DOMAIN msg
    THEN LET timestamp == NewDate(msg.time)
         IN  IF LessThan(valueOf(timestamp), Num(0))
             THEN lt
             ELSE SetUs(timestamp, parseUs(msg.time))
    ELSE lt

SnapshotBookChange(msg, lt) ==
    [type           |-> "book_change",
     symbol         |-> msg.product_id,
     exchange       |-> "coinbase",
     isSnapshot     |-> TRUE,
     bids           |-> SnapshotLevels(msg.bids),
     asks           |-> SnapshotLevels(msg.asks),
     timestamp      |-> SnapshotTimestamp(msg, lt),
     localTimestamp |-> lt]

\* as UpdateBookChange, with the isSnapshot of the snapshot branch
UpdateBookChange_AsSnapshot(msg, timestamp, lt) ==
    [type           |-> "book_change",
     symbol         |-> msg.product_id,
     exchange       |-> "coinbase",
     isSnapshot     |-> TRUE,
     bids           |-> UpdateBids(msg.changes),
     asks           |-> UpdateAsks(msg.changes),
     timestamp      |-> timestamp,
     localTimestamp |-> lt]

UpdateBookChange(msg, timestamp, lt) ==
    [type           |-> "book_change",
     symbol         |-> msg.product_id,
     exchange       |-> "coinbase",
     isSnapshot     |-> FALSE,
     bids           |-> UpdateBids(msg.changes),
     asks           |-> UpdateAsks(msg.changes),
     timestamp      |-> timestamp,
     localTimestamp |-> lt]

\* the time of an l2update fails the validity check
TimeIsInvalid(msg) == LessThan(valueOf(NewDate(msg.time)), Num(0))

\* as UpdateLastTimestampMap, without the validity check: the time of every
\* l2update is stored
UpdateLastTimestampMap_StoresEveryTime(map, msg) ==
    MapSet(map, msg.product_id, SetUs(NewDate(msg.time), parseUs(msg.time)))

\* as UpdateLastTimestampMap, keeping the entry a symbol already has
UpdateLastTimestampMap_KeepsFirst(map, msg) ==
    IF TimeIsInvalid(msg) \/ MapHas(map, msg.product_id)
    THEN map
    ELSE MapSet(map, msg.product_id, SetUs(NewDate(msg.time), parseUs(msg.time)))

\* the map after the timestamp policy of the l2update branch
UpdateLastTimestampMap(map, msg) ==
    IF TimeIsInvalid(msg)
    THEN map
    ELSE MapSet(map, msg.product_id, SetUs(NewDate(msg.time), parseUs(msg.time)))

\* the events of the l2update branch
UpdateEvents(map, msg, lt) ==
    IF TimeIsInvalid(msg)
    THEN IF ~MapHas(map, msg.product_id)
         THEN << >>
         ELSE << UpdateBookChange(msg, map[msg.product_id], lt) >>
    ELSE << UpdateBookChange(msg, SetUs(NewDate(msg.time), parseUs(msg.time)), lt) >>

\* as LastTimestampMapAfter, a snapshot storing its time like an l2update
LastTimestampMapAfter_SnapshotStores(map, msg) ==
    IF msg.type = "snapshot" /\ "time" \notin DOMAIN msg
    THEN map
    ELSE UpdateLastTimestampMap(map, msg)

\* _symbolLastTimestampMap after map(msg): only the l2update branch writes it
LastTimestampMapAfter(map, msg) ==
    IF msg.type = "snapshot" THEN map ELSE UpdateLastTimestampMap(map, msg)

\* the parsed time is a number >= 0 (history only: what validSeen records)
NonNegativeTime(time) ==
    LET v == valueOf(NewDate(time)) IN ~v.nan /\ v.val >= 0

\* the parsed time is a number < 0
NegativeEpoch(time) ==
    LET v == valueOf(NewDate(time)) IN ~v.nan /\ v.val < 0

CoinbaseBookChangMapper_map(msg, lt) ==
    /\ mapper' = "bookChange"
    /\ message' = msg
    /\ localTimestamp' = lt
    /\ mapBefore' = symbolLastTimestampMap
    /\ messageAfter' = msg
    /\ out' = IF msg.type = "snapshot"
              THEN << SnapshotBookChange(msg, lt) >>
              ELSE UpdateEvents(symbolLastTimestampMap, msg, lt)
    /\ symbolLastTimestampMap' =
           LastTimestampMapAfter(symbolLastTimestampMap, msg)
    /\ validSeen' = IF msg.type = "l2update" /\ NonNegativeTime(msg.time)
                    THEN validSeen \cup {msg.product_id}
                    ELSE validSeen

---------------------------------------------------------------------------
(* coinbaseTradesMapper.map *)

DigitChar(d) ==
    CASE d = 0 -> "0" [] d = 1 -> "1" [] d = 2 -> "2" [] d = 3 -> "3"
      [] d = 4 -> "4" [] d = 5 -> "5" [] d = 6 -> "6" [] d = 7 -> "7"
      [] d = 8 -> "8" [] d = 9 -> "9"

\* String(n) for a number n >= 0
RECURSIVE String(_)
String(n) ==
    IF n < 10 THEN << DigitChar(n) >>
    ELSE Append(String(n \div 10), DigitChar(n % 10))

CoinbaseTradeExcluded ==
    <<"type", "trade_id", "product_id", "size", "price", "side">>

\* as pruneObject, the loop stopping one key early
pruneObject_SkipsLastKey(obj, exclusionKeys) ==
    LET excluded == {exclusionKeys[i] : i \in 1..(Len(exclusionKeys) - 1)}
    IN  [key \in DOMAIN obj \ excluded |-> obj[key]]

\* a copy of obj without the keys of exclusionKeys
pruneObject(obj, exclusionKeys) ==
    LET excluded == {exclusionKeys[i] : i \in 1..Len(exclusionKeys)}
    IN  [key \in DOMAIN obj \ excluded |-> obj[key]]

\* obj itself after pruneObject(obj, exclusionKeys): the keys are deleted
\* from result, the spread copy of obj, so obj keeps every key
pruneObjectLeaves(obj, exclusionKeys) == obj

\* as TradeSide, passing the maker side through
TradeSide_NotInverted(side) == side

\* message.side === 'sell' ? 'buy' : 'sell'
TradeSide(side) == IF side = "sell" THEN "buy" ELSE "sell"

TradeEvent(msg, lt) ==
    [type             |-> "trade",
     symbol           |-> msg.product_id,
     exchange         |-> "coinbase",
     id               |-> String(msg.trade_id),
     price            |-> Number(msg.price),
     amount           |-> Number(msg.size),
     side             |-> TradeSide(msg.side),
     timestamp        |-> SetUs(NewDate(msg.time), parseUs(msg.time)),
     localTimestamp   |-> lt,
     exchangeSpecific |-> pruneObject(msg, CoinbaseTradeExcluded)]

coinbaseTradesMapper_map(msg, lt) ==
    /\ mapper' = "trades"
    /\ message' = msg
    /\ localTimestamp' = lt
    /\ mapBefore' = symbolLastTimestampMap
    /\ messageAfter' = pruneObjectLeaves(msg, CoinbaseTradeExcluded)
    /\ out' = << TradeEvent(msg, lt) >>
    /\ UNCHANGED <<symbolLastTimestampMap, validSeen>>

---------------------------------------------------------------------------
(* coinbaseBookTickerMapper.map *)

Undefined == [kind |-> "undefined"]

\* as TickerTimestamp, without the check for a negative time
TickerTimestamp_NoNegativeCheck(msg, lt) ==
    IF "time" \notin DOMAIN msg
    THEN lt
    ELSE SetUs(NewDate(msg.time), parseUs(msg.time))

TickerTimestamp(msg, lt) ==
    IF "time" \notin DOMAIN msg
       \/ LessThan(valueOf(NewDate(msg.time)), Num(0))
    THEN lt
    ELSE SetUs(NewDate(msg.time), parseUs(msg.time))

\* as OptionalNumber, an absent field read as zero
OptionalNumber_ZeroWhenAbsent(msg, field) ==
    IF field \in DOMAIN msg THEN Number(msg[field]) ELSE Num(0)

\* message[field] !== undefined ? Number(message[field]) : undefined
OptionalNumber(msg, field) ==
    IF field \in DOMAIN msg THEN Number(msg[field]) ELSE Undefined

BookTickerEvent(msg, lt) ==
    [type           |-> "book_ticker",
     symbol         |-> msg.product_id,
     exchange       |-> "coinbase",
     askAmount      |-> OptionalNumber(msg, "best_ask_size"),
     askPrice       |-> OptionalNumber(msg, "best_ask"),
     bidPrice       |-> OptionalNumber(msg, "best_bid"),
     bidAmount      |-> OptionalNumber(msg, "best_bid_size"),
     timestamp      |-> TickerTimestamp(msg, lt),
     localTimestamp |-> lt]

coinbaseBookTickerMapper_map(msg, lt) ==
    /\ mapper' = "bookTicker"
    /\ message' = msg
    /\ localTimestamp' = lt
    /\ mapBefore' = symbolLastTimestampMap
    /\ messageAfter' = msg
    /\ out' = << BookTickerEvent(msg, lt) >>
    /\ UNCHANGED <<symbolLastTimestampMap, validSeen>>

---------------------------------------------------------------------------
(* Inputs *)

Symbols == {"BTC-USD", "ETH-USD"}

\* one millisecond before the epoch, as the exchange's "0001-01-01T00:00:00Z"
NegativeTime == IsoTime(0 - 1, <<"9", "9", "9", "4", "5", "6">>)

EpochTime == IsoTime(0, <<"0", "0", "0">>)

LaterTime == IsoTime(0, <<"1", "2", "3", "4", "5", "6">>)

TimeStrings == {NegativeTime, EpochTime, LaterTime, NotATime}

LocalTimestamps ==
    {[ref |-> "localTimestamp", ms |-> Num(2000), us |-> 5],
     [ref |-> "localTimestamp", ms |-> Num(123), us |-> 456]}

SampleChanges ==
    {<< >>,
     << <<"buy", <<"5">>, <<"2">> >>, <<"sell", <<"6">>, <<"0">> >> >>}

SampleBids == << << <<"5">>, <<"2">> >>, << <<"4">>, <<"x">> >> >>

SampleAsks == << << <<"6">>, <<"-", "1">> >>, << <<"7">>, <<"0">> >> >>

L2Updates ==
    [type : {"l2update"}, product_id : Symbols, time : TimeStrings,
     changes : SampleChanges]

Snapshots ==
    [type : {"snapshot"}, product_id : Symbols, time : TimeStrings,
     bids : {SampleBids}, asks : {SampleAsks}]
    \cup
    [type : {"snapshot"}, product_id : Symbols,
     bids : {SampleBids}, asks : {SampleAsks}]

Trades ==
    [type : {"match"}, trade_id : {17}, time : TimeStrings,
     product_id : {"BTC-USD"}, size : {<<"2">>}, price : {<<"5">>},
     side : {"sell", "buy"}]
    \cup
    [type : {"match"}, trade_id : {17}, time : TimeStrings,
     product_id : {"BTC-USD"}, size : {<<"x">>}, price : {<<"5">>},
     side : {"sell", "buy"}, sequence : {50}, maker_order_id : {"ac928c66"}]

FullTicker ==
    [type |-> "ticker", product_id |-> "BTC-USD", time |-> LaterTime,
     best_bid |-> <<"5">>, best_bid_size |-> <<"2">>,
     best_ask |-> <<"6">>, best_ask_size |-> <<"0">>]

TickerNumeric == {"best_bid", "best_bid_size", "best_ask", "best_ask_size"}

\* every subset of the optional numeric fields with a valid time, and every
\* time (or none) with all and with none of them
Tickers ==
    {[key \in {"type", "product_id", "time"} \cup present |-> FullTicker[key]] :
     present \in SUBSET TickerNumeric}
    \cup
    {[key \in {"type", "product_id", "time"} \cup present |->
         IF key = "time" THEN time ELSE FullTicker[key]] :
     present \in {{}, TickerNumeric}, time \in TimeStrings}
    \cup
    {[key \in {"type", "product_id"} \cup present |-> FullTicker[key]] :
     present \in {{}, TickerNumeric}}

NoMessage == [type |-> "none"]

Streams == {"A", "B"}

MaxLevels == 2

\* the sequences over S of length at most n
SeqsUpTo(S, n) == UNION {[1..k -> S] : k \in 0..n}

\* amounts: zero, positive, negative, not a number
AmountStrings == {<<"0">>, <<"2">>, <<"-", "1">>, <<"x">>}

LevelSnapshots ==
    [type : {"snapshot"}, product_id : {"BTC-USD"}, time : {LaterTime},
     bids : SeqsUpTo({<<"5">>} \X AmountStrings, MaxLevels),
     asks : SeqsUpTo({<<"6">>} \X AmountStrings, MaxLevels)]

LevelUpdates ==
    [type : {"l2update"}, product_id : {"BTC-USD"}, time : {LaterTime},
     changes : SeqsUpTo({"buy", "sell"} \X {<<"5">>} \X AmountStrings,
                        MaxLevels)]

---------------------------------------------------------------------------
(* Specification: one mapper of each kind, map calls one after the other *)

Init ==
    /\ symbolLastTimestampMap = << >>
    /\ mapper = "none"
    /\ message = NoMessage
    /\ localTimestamp = CHOOSE lt \in LocalTimestamps : TRUE
    /\ out = << >>
    /\ mapBefore = << >>
    /\ messageAfter = NoMessage
    /\ validSeen = {}
    /\ lastValid = << >>
    /\ inputMonotone = [s \in Symbols |-> TRUE]
    /\ lastEmitted = << >>
    /\ outputMonotone = [s \in Symbols |-> TRUE]
    /\ stream = "none"
    /\ ownMaps = [i \in Streams |-> << >>]
    /\ outOwn = << >>
    /\ streamLast = [i \in Streams |-> << >>]
    /\ generators = << >>
    /\ advanced = << >>
    /\ emitted = << >>
    /\ probed = NoMessage
    /\ handles = {}

Next ==
    \E lt \in LocalTimestamps :
        \/ \E msg \in L2Updates \cup Snapshots :
               /\ CoinbaseBookChangMapper_map(msg, lt)
               /\ UNCHANGED <<historyVars, streamVars, lazyVars, dispatchVars>>
        \/ \E msg \in Trades :
               /\ coinbaseTradesMapper_map(msg, lt)
               /\ UNCHANGED <<historyVars, streamVars, lazyVars, dispatchVars>>
        \/ \E msg \in Tickers :
               /\ coinbaseBookTickerMapper_map(msg, lt)
               /\ UNCHANGED <<historyVars, streamVars, lazyVars, dispatchVars>>

Spec == Init /\ [][Next]_vars

---------------------------------------------------------------------------
(* Specification of the level lists: a fresh book-change mapper maps one   *)
(* message whose level lists range over every list of at most MaxLevels    *)
(* levels.                                                                 *)

NextLevels ==
    /\ mapper = "none"
    /\ \E lt \in LocalTimestamps :
           \E msg \in LevelSnapshots \cup LevelUpdates :
               /\ CoinbaseBookChangMapper_map(msg, lt)
               /\ UNCHANGED <<historyVars, streamVars, lazyVars, dispatchVars>>

SpecLevels == Init /\ [][NextLevels]_vars

---------------------------------------------------------------------------
(* Properties *)

IsUpdateCall == mapper = "bookChange" /\ message.type = "l2update"

IsSnapshotCall == mapper = "bookChange" /\ message.type = "snapshot"

\* the Date the mappers build from a time string: new Date(time), μs attached
ParsedTimestamp(time) ==
    [ref |-> "new", ms |-> valueOf(NewDate(time)), us |-> parseUs(time)]

---------------------------------------------------------------------------
(* Specification of the history: the book-change mapper maps l2updates and *)
(* snapshots one after the other, and the history of each symbol's         *)
(* l2update stream is recorded beside it.                                  *)

\* a <= b on Dates with a microsecond remainder; false for an Invalid Date
TimestampLeq(a, b) ==
    /\ ~valueOf(a).nan
    /\ ~valueOf(b).nan
    /\ \/ valueOf(a).val < valueOf(b).val
       \/ valueOf(a).val = valueOf(b).val /\ a.us <= b.us

BookChangeWithHistory(msg, lt) ==
    /\ CoinbaseBookChangMapper_map(msg, lt)
    /\ lastValid' =
           IF msg.type = "l2update" /\ NonNegativeTime(msg.time)
           THEN MapSet(lastValid, msg.product_id, ParsedTimestamp(msg.time))
           ELSE lastValid
    /\ inputMonotone' =
           IF /\ msg.type = "l2update"
              /\ NonNegativeTime(msg.time)
              /\ MapHas(lastValid, msg.product_id)
              /\ ~TimestampLeq(lastValid[msg.product_id],
                               ParsedTimestamp(msg.time))
           THEN [inputMonotone EXCEPT ![msg.product_id] = FALSE]
           ELSE inputMonotone
    /\ lastEmitted' =
           IF msg.type = "l2update" /\ out' # << >>
           THEN MapSet(lastEmitted, msg.product_id, out'[1].timestamp)
           ELSE lastEmitted
    /\ outputMonotone' =
           IF /\ msg.type = "l2update"
              /\ out' # << >>
              /\ MapHas(lastEmitted, msg.product_id)
              /\ ~TimestampLeq(lastEmitted[msg.product_id],
                               out'[1].timestamp)
           THEN [outputMonotone EXCEPT ![msg.product_id] = FALSE]
           ELSE outputMonotone
    /\ UNCHANGED <<streamVars, lazyVars, dispatchVars>>

NextHistory ==
    \E lt \in LocalTimestamps :
        \E msg \in L2Updates \cup Snapshots : BookChangeWithHistory(msg, lt)

SpecHistory == Init /\ [][NextHistory]_vars

---------------------------------------------------------------------------
(* Specification of two streams: the l2updates of two interleaved streams  *)
(* for one symbol are mapped by one shared CoinbaseBookChangMapper         *)
(* (symbolLastTimestampMap, out) and, beside it, each by the mapper of its *)
(* own stream (ownMaps, outOwn).                                           *)

\* as OwnMapOf, the map being one static field shared by all instances
OwnMapOf_Static(str) == "A"

\* the map the mapper of stream str uses: the field of its own instance
OwnMapOf(str) == str

StreamUpdates ==
    {m \in L2Updates : m.product_id = "BTC-USD" /\ m.changes = << >>}

StreamMap(str, msg, lt) ==
    /\ CoinbaseBookChangMapper_map(msg, lt)
    /\ stream' = str
    /\ outOwn' = UpdateEvents(ownMaps[OwnMapOf(str)], msg, lt)
    /\ ownMaps' = [ownMaps EXCEPT ![OwnMapOf(str)] =
                                     LastTimestampMapAfter(@, msg)]
    /\ streamLast' =
           IF NegativeEpoch(msg.time)
           THEN streamLast
           ELSE [streamLast EXCEPT ![str] =
                     MapSet(@, msg.product_id, ParsedTimestamp(msg.time))]
    /\ UNCHANGED <<historyVars, lazyVars, dispatchVars>>

NextStreams ==
    \E str \in Streams : \E lt \in LocalTimestamps :
        \E msg \in StreamUpdates : StreamMap(str, msg, lt)

SpecStreams == Init /\ [][NextStreams]_vars

---------------------------------------------------------------------------
(* Specification of the lazy sequences: map is a generator function, so a  *)
(* call only creates a generator; its body runs when the generator is      *)
(* advanced, up to the yield or the return, and resumes after the yield    *)
(* when it is advanced again.                                              *)

MaxGenerators == 2

LazyMessages ==
    StreamUpdates
        \cup {m \in Snapshots : m.product_id = "BTC-USD" /\ "time" \in DOMAIN m}

LazyLocalTimestamp == CHOOSE lt \in LocalTimestamps : TRUE

\* the events the body yields for msg when it starts on the map lastMap
BodyEvents(lastMap, msg, lt) ==
    IF msg.type = "snapshot"
    THEN <<SnapshotBookChange(msg, lt)>>
    ELSE UpdateEvents(lastMap, msg, lt)

\* as AfterYield, the time of the message being stored after the yield
AfterYield_Stores(lastMap, msg) ==
    IF msg.type = "l2update"
    THEN MapSet(lastMap, msg.product_id, ParsedTimestamp(msg.time))
    ELSE lastMap

\* the map after the rest of the body, from the yield to its end
AfterYield(lastMap, msg) == lastMap

\* map(msg, lt): the generator is created, none of the body has run
CallMap(msg, lt) ==
    /\ Len(generators) < MaxGenerators
    /\ generators' = Append(generators,
           [message |-> msg, localTimestamp |-> lt, pc |-> "start"])
    /\ UNCHANGED <<mapperVars, advanced, emitted>>
    /\ UNCHANGED <<historyVars, streamVars, dispatchVars>>

\* the first next() of generator i: the body runs to its yield or return
StartGenerator(i) ==
    LET g == generators[i]
        events == BodyEvents(symbolLastTimestampMap, g.message,
                             g.localTimestamp)
    IN /\ g.pc = "start"
       /\ symbolLastTimestampMap' =
              LastTimestampMapAfter(symbolLastTimestampMap, g.message)
       /\ emitted' = emitted \o events
       /\ advanced' = Append(advanced,
              [message |-> g.message, localTimestamp |-> g.localTimestamp])
       /\ generators' = [generators EXCEPT ![i].pc =
              IF events = << >> THEN "done" ELSE "yielded"]
       /\ UNCHANGED <<callVars, historyVars, streamVars, dispatchVars>>

\* the next() after the yield: the body runs from the yield to its end
ResumeGenerator(i) ==
    LET g == generators[i]
    IN /\ g.pc = "yielded"
       /\ symbolLastTimestampMap' = AfterYield(symbolLastTimestampMap, g.message)
       /\ generators' = [generators EXCEPT ![i].pc = "done"]
       /\ UNCHANGED <<callVars, advanced, emitted>>
       /\ UNCHANGED <<historyVars, streamVars, dispatchVars>>

NextLazy ==
    \/ \E msg \in LazyMessages : CallMap(msg, LazyLocalTimestamp)
    \/ \E i \in DOMAIN generators : StartGenerator(i)
    \/ \E i \in DOMAIN generators : ResumeGenerator(i)

SpecLazy == Init /\ [][NextLazy]_vars

---------------------------------------------------------------------------
(* Specification of the dispatch: a message is offered to canHandle of the *)
(* three mappers and then mapped by a mapper that recognised it.           *)

coinbaseTradesMapper_canHandle(msg) == msg.type = "match"

\* as CoinbaseBookChangMapper_canHandle, recognising every type but 'ticker'
CoinbaseBookChangMapper_canHandle_AllButTicker(msg) == msg.type # "ticker"

CoinbaseBookChangMapper_canHandle(msg) ==
    msg.type = "l2update" \/ msg.type = "snapshot"

coinbaseBookTickerMapper_canHandle(msg) == msg.type = "ticker"

Subscriptions == [type |-> "subscriptions"]

DispatchMessages ==
    StreamUpdates
        \cup {m \in Snapshots : m.product_id = "BTC-USD" /\ "time" \notin DOMAIN m}
        \cup {m \in Trades : m.time = LaterTime /\ "sequence" \in DOMAIN m}
        \cup {FullTicker, Subscriptions}

\* the three canHandle are called on msg
CanHandle(msg) ==
    /\ probed' = msg
    /\ handles' =
           {name \in {"trades"} : coinbaseTradesMapper_canHandle(msg)}
           \cup {name \in {"bookChange"} :
                     CoinbaseBookChangMapper_canHandle(msg)}
           \cup {name \in {"bookTicker"} :
                     coinbaseBookTickerMapper_canHandle(msg)}
    /\ UNCHANGED <<mapperVars, historyVars, streamVars, lazyVars>>

\* the message offered last is mapped by a mapper that recognised it
MapHandled(lt) ==
    /\ \/ "trades" \in handles /\ coinbaseTradesMapper_map(probed, lt)
       \/ "bookChange" \in handles /\ CoinbaseBookChangMapper_map(probed, lt)
       \/ "bookTicker" \in handles /\ coinbaseBookTickerMapper_map(probed, lt)
    /\ UNCHANGED <<historyVars, streamVars, lazyVars, dispatchVars>>

NextDispatch ==
    \/ \E msg \in DispatchMessages : CanHandle(msg)
    \/ \E lt \in LocalTimestamps : MapHandled(lt)

SpecDispatch == Init /\ [][NextDispatch]_vars

---------------------------------------------------------------------------
(* Properties of the mappers *)

C2_InvalidTimeBeforeValidIsSuppressed ==
    (IsUpdateCall /\ NegativeEpoch(message.time)
        /\ message.product_id \notin validSeen)
    => out = << >>

\* C3: after an l2update whose parsed time is non-negative, the map entry of
\* its product_id is that parsed timestamp with its microsecond remainder,
\* whatever the entry was before, and the event carries the same timestamp.
C3_ValidTimeIsStoredAndEmitted ==
    (IsUpdateCall /\ NonNegativeTime(message.time))
    => /\ MapHas(symbolLastTimestampMap, message.product_id)
       /\ symbolLastTimestampMap[message.product_id]
              = ParsedTimestamp(message.time)
       /\ valueOf(symbolLastTimestampMap[message.product_id]).val
              = message.time.sec * 1000
                + DigitsValue(SubSeq(message.time.frac, 1, 3))
       /\ Len(out) = 1
       /\ out[1].timestamp = ParsedTimestamp(message.time)

\* a valid-time l2update replaced an entry that held a later time
C3_Witness ==
    /\ IsUpdateCall /\ NonNegativeTime(message.time)
    /\ MapHas(mapBefore, message.product_id)
    /\ ~valueOf(mapBefore[message.product_id]).nan
    /\ valueOf(mapBefore[message.product_id]).val
           > valueOf(symbolLastTimestampMap[message.product_id]).val

\* C4: every timestamp in the map has a non-negative epoch value.
C4_MapHoldsOnlyNonNegativeTimes ==
    \A key \in DOMAIN symbolLastTimestampMap :
        /\ ~valueOf(symbolLastTimestampMap[key]).nan
        /\ valueOf(symbolLastTimestampMap[key]).val >= 0

\* C5: a snapshot leaves the map as it was, its timestamp is the caller's
\* localTimestamp or the Date parsed from its own time field, and a snapshot
\* for a symbol without a map entry does not let the negative-time l2update
\* that follows it for that symbol be emitted.
C5_SnapshotLeavesMapAlone ==
    /\ [](IsSnapshotCall =>
             /\ symbolLastTimestampMap = mapBefore
             /\ Len(out) = 1
             /\ out[1].timestamp \in
                    {localTimestamp} \cup
                    (IF "time" \in DOMAIN message
                     THEN {ParsedTimestamp(message.time)} ELSE {}))
    /\ [][(/\ IsSnapshotCall
            /\ ~MapHas(mapBefore, message.product_id)
            /\ mapper' = "bookChange"
            /\ message'.type = "l2update"
            /\ message'.product_id = message.product_id
            /\ NegativeEpoch(message'.time))
           => out' = << >>]_vars

\* a snapshot with a valid time was mapped while the map had no entry for
\* its symbol and an entry for the other one
C5_Witness ==
    /\ IsSnapshotCall
    /\ "time" \in DOMAIN message
    /\ NonNegativeTime(message.time)
    /\ out[1].timestamp = ParsedTimestamp(message.time)
    /\ ~MapHas(symbolLastTimestampMap, message.product_id)
    /\ DOMAIN symbolLastTimestampMap # {}

\* C6: a Trade's side is the opposite of the side of its match message.
C6_TradeSideIsInverted ==
    mapper = "trades"
    => /\ Len(out) = 1
       /\ out[1].type = "trade"
       /\ (message.side = "sell" => out[1].side = "buy")
       /\ (message.side = "buy" => out[1].side = "sell")

\* a match message tagged buy was mapped
C6_Witness ==
    mapper = "trades" /\ message.side = "buy" /\ out[1].side = "sell"

\* the amount string parses to a number >= 0
ValidAmount(str) == LET a == Number(str) IN ~a.nan /\ a.val >= 0

StrictlyIncreasing(f) ==
    \A i \in DOMAIN f : \A j \in DOMAIN f : i < j => f[i] < f[j]

\* output is the list of the snapshot levels of input with a valid amount,
\* mapped to {price, amount}, in the order of input
IsValidLevelsOf(output, input) ==
    /\ \A i \in 1..Len(output) :
           ~output[i].amount.nan /\ output[i].amount.val >= 0
    /\ Len(output)
           = Cardinality({i \in 1..Len(input) : ValidAmount(input[i][2])})
    /\ \E f \in [1..Len(output) -> 1..Len(input)] :
           /\ StrictlyIncreasing(f)
           /\ \A i \in 1..Len(output) :
                  output[i] = [price  |-> Number(input[f[i]][1]),
                               amount |-> Number(input[f[i]][2])]

\* C7: the bids and the asks of a snapshot's BookChange are the input levels
\* mapped to {price, amount} without those whose amount is NaN or negative:
\* every level with a valid amount (zero too) is kept, each side on its own,
\* in input order.
C7_SnapshotLevelsFiltered ==
    IsSnapshotCall
    => /\ Len(out) = 1
       /\ out[1].isSnapshot = TRUE
       /\ IsValidLevelsOf(out[1].bids, message.bids)
       /\ IsValidLevelsOf(out[1].asks, message.asks)

\* a snapshot lost a NaN bid before a zero bid that it kept, and lost a
\* negative ask after a positive ask that it kept
C7_Witness ==
    /\ IsSnapshotCall
    /\ message.bids = << << <<"5">>, <<"x">> >>, << <<"5">>, <<"0">> >> >>
    /\ message.asks = << << <<"6">>, <<"2">> >>, << <<"6">>, <<"-", "1">> >> >>
    /\ out[1].bids = << [price |-> Num(5), amount |-> Num(0)] >>
    /\ out[1].asks = << [price |-> Num(6), amount |-> Num(2)] >>

\* output is the list of the changes tagged side, mapped to {price, amount},
\* in the order of changes
IsSideOf(output, changes, side) ==
    /\ Len(output)
           = Cardinality({i \in 1..Len(changes) : changes[i][1] = side})
    /\ \E f \in [1..Len(output) -> 1..Len(changes)] :
           /\ StrictlyIncreasing(f)
           /\ \A i \in 1..Len(output) :
                  /\ changes[f[i]][1] = side
                  /\ output[i] = [price  |-> Number(changes[f[i]][2]),
                                  amount |-> Number(changes[f[i]][3])]

\* C8: in an emitted incremental BookChange, bids are the changes tagged buy
\* and asks those tagged sell, mapped to {price, amount} in input order, none
\* of them filtered by its amount.
C8_UpdateLevelsPartitioned ==
    (IsUpdateCall /\ Len(out) = 1)
    => /\ out[1].isSnapshot = FALSE
       /\ IsSideOf(out[1].bids, message.changes, "buy")
       /\ IsSideOf(out[1].asks, message.changes, "sell")
       /\ Len(out[1].bids) + Len(out[1].asks) = Len(message.changes)

\* an l2update passed a NaN ask and a negative bid through
C8_Witness ==
    /\ IsUpdateCall
    /\ message.changes = << <<"sell", <<"5">>, <<"x">> >>,
                            <<"buy", <<"5">>, <<"-", "1">> >> >>
    /\ Len(out) = 1
    /\ out[1].bids = << [price |-> Num(5), amount |-> Num(0 - 1)] >>
    /\ out[1].asks = << [price |-> Num(5), amount |-> NaN] >>

\* the time field of the last message is missing or parses to a negative time
TimeMissingOrInvalid ==
    "time" \notin DOMAIN message \/ NegativeEpoch(message.time)

\* C9: a message whose time is missing or invalid ends in a fallback outcome:
\* its event is stamped with localTimestamp or with the cached timestamp of
\* its symbol, or it yields nothing.
C9_InvalidTimeEndsInFallback ==
    (mapper # "none" /\ TimeMissingOrInvalid)
    => \/ out = << >>
       \/ /\ Len(out) = 1
          /\ \/ out[1].timestamp = localTimestamp
             \/ /\ mapper = "bookChange"
                /\ MapHas(mapBefore, message.product_id)
                /\ out[1].timestamp = mapBefore[message.product_id]

\* C10: a BookTicker is stamped with the caller's localTimestamp exactly when
\* its message has no time or a time that parses to a negative value, and
\* with the parsed time and its microsecond remainder otherwise.
C10_TickerTimestampPolicy ==
    mapper = "bookTicker"
    => /\ Len(out) = 1
       /\ out[1].type = "book_ticker"
       /\ (out[1].timestamp = localTimestamp <=> TimeMissingOrInvalid)
       /\ (~TimeMissingOrInvalid
              => out[1].timestamp = ParsedTimestamp(message.time))

\* a ticker with a negative time was stamped with localTimestamp, whose
\* milliseconds and μs are those the caller gave
C10_Witness ==
    /\ mapper = "bookTicker"
    /\ "time" \in DOMAIN message
    /\ NegativeEpoch(message.time)
    /\ out[1].timestamp = localTimestamp
    /\ out[1].timestamp.ref = "localTimestamp"

\* C11: a snapshot's BookChange is stamped with localTimestamp when the
\* message has no time or a time that parses to a negative value, and with
\* the parsed time and its microsecond remainder otherwise; a snapshot always
\* yields its event.
C11_SnapshotTimestampPolicy ==
    IsSnapshotCall
    => /\ Len(out) = 1
       /\ out[1].isSnapshot = TRUE
       /\ out[1].timestamp =
              IF TimeMissingOrInvalid THEN localTimestamp
              ELSE ParsedTimestamp(message.time)

\* a snapshot with a negative time was stamped with localTimestamp although
\* the map held an entry for its symbol
C11_Witness ==
    /\ IsSnapshotCall
    /\ "time" \in DOMAIN message
    /\ NegativeEpoch(message.time)
    /\ MapHas(symbolLastTimestampMap, message.product_id)
    /\ out[1].timestamp = localTimestamp
    /\ out[1].timestamp # symbolLastTimestampMap[message.product_id]

\* the BookTicker field holds undefined exactly when the message lacks
\* source, and the number parsed from source otherwise
OptionalFieldOf(value, source) ==
    /\ (value = Undefined <=> source \notin DOMAIN message)
    /\ (source \in DOMAIN message => value = Number(message[source]))

\* C12: each of bidPrice, bidAmount, askPrice and askAmount of a BookTicker
\* is undefined exactly when best_bid, best_bid_size, best_ask or
\* best_ask_size is absent from the message, and its numeric parse otherwise.
C12_TickerOptionalFields ==
    mapper = "bookTicker"
    => /\ Len(out) = 1
       /\ OptionalFieldOf(out[1].bidPrice, "best_bid")
       /\ OptionalFieldOf(out[1].bidAmount, "best_bid_size")
       /\ OptionalFieldOf(out[1].askPrice, "best_ask")
       /\ OptionalFieldOf(out[1].askAmount, "best_ask_size")

\* a ticker with best_bid and best_ask_size alone: the other two fields are
\* undefined, and the size "0" is the number zero, not undefined
C12_Witness ==
    /\ mapper = "bookTicker"
    /\ DOMAIN message \cap TickerNumeric = {"best_bid", "best_ask_size"}
    /\ out[1].bidPrice = Num(5)
    /\ out[1].bidAmount = Undefined
    /\ out[1].askPrice = Undefined
    /\ out[1].askAmount = Num(0)

\* C13: a match message yields exactly one Trade, a ticker exactly one
\* BookTicker, a snapshot exactly one BookChange with isSnapshot true, and an
\* l2update one BookChange with isSnapshot false or nothing.
C13_EventsPerMessage ==
    /\ Len(out) <= 1
    /\ mapper = "trades" => Len(out) = 1 /\ out[1].type = "trade"
    /\ mapper = "bookTicker" => Len(out) = 1 /\ out[1].type = "book_ticker"
    /\ IsSnapshotCall
         => Len(out) = 1 /\ out[1].type = "book_change"
                        /\ out[1].isSnapshot = TRUE
    /\ (IsUpdateCall /\ out # << >>)
         => out[1].type = "book_change" /\ out[1].isSnapshot = FALSE

\* an l2update yielded nothing although its change list was not empty
C13_Witness ==
    /\ IsUpdateCall
    /\ message.changes # << >>
    /\ out = << >>

\* C14: exchangeSpecific of a Trade holds every key of the match message but
\* type, trade_id, product_id, size, price and side, each with the value the
\* message has, and the message keeps all its keys.
C14_ExchangeSpecificIsPrunedCopy ==
    mapper = "trades"
    => /\ Len(out) = 1
       /\ DOMAIN out[1].exchangeSpecific
              = DOMAIN message
                \ {"type", "trade_id", "product_id", "size", "price", "side"}
       /\ \A key \in DOMAIN out[1].exchangeSpecific :
              out[1].exchangeSpecific[key] = message[key]
       /\ "time" \in DOMAIN out[1].exchangeSpecific
       /\ messageAfter = message
       /\ {"type", "trade_id", "product_id", "size", "price", "side"}
              \subseteq DOMAIN messageAfter

\* a match message with two extra keys was mapped: exchangeSpecific keeps
\* them and time
C14_Witness ==
    /\ mapper = "trades"
    /\ DOMAIN out[1].exchangeSpecific = {"time", "sequence", "maker_order_id"}
    /\ out[1].exchangeSpecific.sequence = 50
    /\ "side" \in DOMAIN messageAfter

\* C15: a map entry is never removed, every symbol that had an l2update with
\* a valid time has an entry, and an l2update is suppressed only for a symbol
\* that had no l2update with a valid time yet.
C15_NoSuppressionAfterValidTime ==
    /\ [](/\ validSeen \subseteq DOMAIN symbolLastTimestampMap
          /\ (IsUpdateCall /\ out = << >>)
                => message.product_id \notin validSeen)
    /\ [][\A s \in Symbols :
             MapHas(symbolLastTimestampMap, s)
             => MapHas(symbolLastTimestampMap', s)]_vars

\* a negative-time l2update was emitted for a symbol that had a valid time,
\* while the other symbol, still without an entry, would be suppressed
C15_Witness ==
    /\ IsUpdateCall
    /\ NegativeEpoch(message.time)
    /\ message.product_id \in validSeen
    /\ Len(out) = 1
    /\ validSeen = {message.product_id}
    /\ DOMAIN symbolLastTimestampMap = {message.product_id}

\* C18: every emitted incremental BookChange for a symbol carries the parsed
\* timestamp of the latest l2update with a valid (non-negative) time for that
\* symbol, the current one included, and the message leaves the map entries
\* of the other symbols as they were.
C18_EmittedTimestampIsLatestValid ==
    (IsUpdateCall /\ Len(out) = 1)
    => /\ MapHas(lastValid, message.product_id)
       /\ out[1].timestamp = lastValid[message.product_id]
       /\ out[1].timestamp # localTimestamp
       /\ \A s \in Symbols \ {message.product_id} :
              /\ MapHas(symbolLastTimestampMap, s) <=> MapHas(mapBefore, s)
              /\ MapHas(mapBefore, s)
                    => symbolLastTimestampMap[s] = mapBefore[s]

\* C19: for every symbol whose l2update times >= 0 never decreased, the
\* timestamps of its emitted incremental BookChanges never decreased.
C19_MonotonicTimesStayMonotonic ==
    \A s \in Symbols : inputMonotone[s] => outputMonotone[s]

OtherStream(str) == CHOOSE other \in Streams : other # str

\* C16: with one mapper per stream, a negative-time l2update is emitted
\* exactly when its own stream stored a time before, and then with that time;
\* (with one mapper shared by both streams a state is reachable where it is
\* emitted with the time the other stream stored: C16_Witness).
C16_OwnMapperFallsBackToOwnStream ==
    (stream # "none" /\ NegativeEpoch(message.time))
    => /\ outOwn = << >> <=> ~MapHas(streamLast[stream], message.product_id)
       /\ outOwn # << >>
            => outOwn[1].timestamp = streamLast[stream][message.product_id]

\* a negative-time l2update of one stream: its own mapper stamps it with the
\* time its stream stored last, the shared mapper with another time, the one
\* the other stream stored last
C16_Witness ==
    /\ stream # "none"
    /\ NegativeEpoch(message.time)
    /\ Len(out) = 1
    /\ Len(outOwn) = 1
    /\ outOwn[1].timestamp = streamLast[stream][message.product_id]
    /\ out[1].timestamp # outOwn[1].timestamp
    /\ ~valueOf(out[1].timestamp).nan
    /\ ~valueOf(outOwn[1].timestamp).nan
    /\ MapHas(streamLast[OtherStream(stream)], message.product_id)
    /\ out[1].timestamp
          = streamLast[OtherStream(stream)][message.product_id]

RECURSIVE SerialRun(_)
\* the map and the events of mapping the calls one after the other, each to
\* its end, by a fresh mapper
SerialRun(calls) ==
    IF calls = << >>
    THEN [lastMap |-> << >>, events |-> << >>]
    ELSE LET before == SerialRun(SubSeq(calls, 1, Len(calls) - 1))
             call == calls[Len(calls)]
         IN [lastMap |-> LastTimestampMapAfter(before.lastMap, call.message),
             events |-> before.events
                 \o BodyEvents(before.lastMap, call.message,
                               call.localTimestamp)]

\* C17: whatever the order in which the sequences are created, advanced and
\* resumed, the map and the events emitted are those of processing the
\* messages one after the other in the order of their first advance; a
\* sequence never advanced is not in that order and has had no effect.
C17_InterleavingEqualsSerialOrderOfFirstAdvance ==
    /\ symbolLastTimestampMap = SerialRun(advanced).lastMap
    /\ emitted = SerialRun(advanced).events

\* two l2updates of one symbol with different valid times, advanced in the
\* reverse of the order of their map calls, the first advanced one resumed
\* after the other started: the map holds the time of the one created first
C17_Witness ==
    /\ Len(generators) = 2
    /\ Len(advanced) = 2
    /\ generators[1].message.type = "l2update"
    /\ generators[2].message.type = "l2update"
    /\ NonNegativeTime(generators[1].message.time)
    /\ NonNegativeTime(generators[2].message.time)
    /\ generators[1].message.time # generators[2].message.time
    /\ advanced[1].message = generators[2].message
    /\ advanced[2].message = generators[1].message
    /\ generators[1].pc = "yielded"
    /\ generators[2].pc = "done"
    /\ symbolLastTimestampMap["BTC-USD"]
          = ParsedTimestamp(generators[1].message.time)

\* C20: at most one of the three canHandle is true of a message: that of the
\* trades mapper exactly for type 'match', of the book-change mapper exactly
\* for 'snapshot' and 'l2update', of the ticker mapper exactly for 'ticker';
\* and a step that calls canHandle leaves the last-timestamp map, and the
\* arguments and result of the last map call, as they were.
C20_DispatchIsUnambiguousAndPure ==
    /\ [](/\ Cardinality(handles) <= 1
          /\ "trades" \in handles <=> probed.type = "match"
          /\ "bookChange" \in handles
                <=> probed.type \in {"snapshot", "l2update"}
          /\ "bookTicker" \in handles <=> probed.type = "ticker")
    /\ [][(probed' # probed \/ handles' # handles)
            => UNCHANGED mapperVars]_vars

\* canHandle has been called on an l2update with a valid time after a map
\* call stored a time for its symbol: only the book-change mapper handles it
C20_Witness ==
    /\ probed.type = "l2update"
    /\ NonNegativeTime(probed.time)
    /\ handles = {"bookChange"}
    /\ mapper = "bookChange"
    /\ message # probed
    /\ MapHas(symbolLastTimestampMap, probed.product_id)

====
